---------------------------- MODULE Spec2Model ----------------------------
(***************************************************************************)
(* Model of src/src/transform.py: the pixel -> (long, lat) pipeline        *)
(* scale -> rotate -> translate, its orchestrator transform, and the       *)
(* legacy transform_old.                                                   *)
(*                                                                         *)
(* Numbers.  numpy float64 values are modelled as exact fractions          *)
(* [n |-> numerator, d |-> denominator] in lowest terms with d > 0, plus   *)
(* the three IEEE specials d = 0: n = 1 is +inf, n = -1 is -inf, n = 0 is  *)
(* nan.  The inputs are drawn from integer corner sets whose edges are     *)
(* axis-parallel or (3,4,5) Pythagorean, so that every norm is an integer  *)
(* and every cosine and sine the code computes is rational.                *)
(*                                                                         *)
(* Angles.  An angle is a fraction of milliradians (arccos values rounded  *)
(* to the nearest milliradian); ArcCos, Cos and Sin are tables over the    *)
(* cosines that occur.                                                     *)
(***************************************************************************)
EXTENDS Integers, Sequences, FiniteSets, TLC

\* ------------------------------------------------------------------ bounds
MaxLen == 3     \* axis-parallel edges have length 0..MaxLen
MaxSize == 1    \* image width and height range over 1..MaxSize

\* ------------------------------------------------------- float arithmetic
Abs(x) == IF x < 0 THEN -x ELSE x

Sign(x) == IF x < 0 THEN -1 ELSE IF x > 0 THEN 1 ELSE 0

RECURSIVE GCD(_, _)
GCD(a, b) == IF b = 0 THEN a ELSE GCD(b, a % b)

Frac(n, d) ==
    IF d = 0 THEN [n |-> Sign(n), d |-> 0]
    ELSE LET g == GCD(Abs(n), Abs(d))
         IN  [n |-> Sign(n) * Sign(d) * (Abs(n) \div g), d |-> Abs(d) \div g]

Zero == Frac(0, 1)
One == Frac(1, 1)
NaN == Frac(0, 0)

IsNaN(a) == a.d = 0 /\ a.n = 0

RNeg(a) == [n |-> -a.n, d |-> a.d]

RAbs(a) == [n |-> Abs(a.n), d |-> a.d]

RAdd(a, b) ==
    IF a.d = 0 /\ b.d = 0
    THEN (IF a.n = b.n THEN a ELSE NaN)
    ELSE Frac(a.n * b.d + b.n * a.d, a.d * b.d)

RSub(a, b) == RAdd(a, RNeg(b))

RMul(a, b) == Frac(a.n * b.n, a.d * b.d)

RDiv(a, b) ==
    IF b.d = 0
    THEN (IF a.d = 0 \/ b.n = 0 THEN NaN ELSE Zero)
    ELSE IF b.n = 0 THEN Frac(a.n, 0)
    ELSE Frac(a.n * b.d * Sign(b.n), a.d * Abs(b.n))

\* a < b on floats: every comparison with nan is false
RLess(a, b) ==
    IF IsNaN(a) \/ IsNaN(b) THEN FALSE
    ELSE IF a.d = 0 /\ b.d = 0 THEN a.n < b.n
    ELSE IF a.d = 0 THEN a.n < 0
    ELSE IF b.d = 0 THEN b.n > 0
    ELSE a.n * b.d < b.n * a.d

RLeq(a, b) == RLess(a, b) \/ (~IsNaN(a) /\ a = b)

\* ----------------------------------------------------------------- vectors
Vec(p) == <<Frac(p[1], 1), Frac(p[2], 1)>>

VSub(u, v) == <<u[1] - v[1], u[2] - v[2]>>

Dot(u, v) == u[1] * v[1] + u[2] * v[2]

ISqrt(k) == CHOOSE r \in 0..k : r * r = k

Norm(v) == ISqrt(Dot(v, v))

MatVec(M, p) ==
    << RAdd(RMul(M[1][1], p[1]), RMul(M[1][2], p[2])),
       RAdd(RMul(M[2][1], p[1]), RMul(M[2][2], p[2])) >>

NoPoint == <<>>

\* --------------------------------------------------------- trigonometry
\* <<numerator, denominator, arccos in milliradians>> of every cosine that
\* an axis-parallel or (3,4,5) edge makes with a unit axis vector
ArcCosTable ==
    { <<1, 1, 0>>, <<4, 5, 644>>, <<3, 5, 927>>, <<0, 1, 1571>>,
      <<-3, 5, 2214>>, <<-4, 5, 2498>>, <<-1, 1, 3142>> }

Pi == Frac(3142, 1)

ArcCos(c) ==
    IF IsNaN(c) THEN NaN
    ELSE Frac((CHOOSE t \in ArcCosTable : t[1] = c.n /\ t[2] = c.d)[3], 1)

Cos(a) ==
    IF IsNaN(a) THEN NaN
    ELSE LET t == CHOOSE t \in ArcCosTable : t[3] = Abs(a.n)
         IN  Frac(t[1], t[2])

Sin(a) ==
    IF IsNaN(a) THEN NaN
    ELSE LET t == CHOOSE t \in ArcCosTable : t[3] = Abs(a.n)
         IN  Frac(Sign(a.n) * ISqrt(t[2] * t[2] - t[1] * t[1]), t[2])

\* ------------------------------------------------------------------ scale
\* scale = realsize / imagesize, per axis
scale_factors(corner_ur_, corner_ul_, corner_ll_, imagesize_) ==
    << Frac(Norm(VSub(corner_ur_, corner_ul_)), imagesize_[1]),
       Frac(Norm(VSub(corner_ul_, corner_ll_)), imagesize_[2]) >>

\* variant: the assert written with <= instead of <
scale_assert_leq(s) == RLeq(RAbs(RDiv(RSub(s[1], s[2]), s[2])), One)

\* the condition of the assert statement
scale_assert(s) == RLess(RAbs(RDiv(RSub(s[1], s[2]), s[2])), One)

\* variant: the pixel point is clamped into the image before it is scaled
scale_clamped(p, corner_ur_, corner_ul_, corner_ll_, imagesize_) ==
    LET s == scale_factors(corner_ur_, corner_ul_, corner_ll_, imagesize_)
        M_scale == << <<s[1], Zero>>, <<Zero, s[2]>> >>
        lo(x) == IF RLess(x, Zero) THEN Zero ELSE x
        hi(x, m) == IF RLess(Frac(m, 1), x) THEN Frac(m, 1) ELSE x
    IN  MatVec(M_scale, << hi(lo(p[1]), imagesize_[1]), hi(lo(p[2]), imagesize_[2]) >>)

scale(p, corner_ur_, corner_ul_, corner_ll_, imagesize_) ==
    LET s == scale_factors(corner_ur_, corner_ul_, corner_ll_, imagesize_)
        M_scale == << <<s[1], Zero>>, <<Zero, s[2]>> >>
    IN  MatVec(M_scale, p)

\* ----------------------------------------------------------------- rotate
\* variant: a signed angle, positive when v1 is counter-clockwise of v2
calc_angle_signed(v1, v2) ==
    LET a == ArcCos(Frac(Dot(v1, v2), Norm(v1) * Norm(v2)))
    IN  IF v2[1] * v1[2] - v2[2] * v1[1] < 0 THEN RNeg(a) ELSE a

calc_angle(v1, v2) == ArcCos(Frac(Dot(v1, v2), Norm(v1) * Norm(v2)))

anglex_of(corner_ur_, corner_ul_) ==
    RNeg(calc_angle(VSub(corner_ul_, corner_ur_), <<-1, 0>>))

angley_of(corner_ul_, corner_ll_) ==
    RNeg(calc_angle(VSub(corner_ll_, corner_ul_), <<0, -1>>))

\* np.argmax over two floats: the first nan if there is one, else the
\* first maximum
argmax(a) ==
    IF IsNaN(a[1]) THEN 1
    ELSE IF IsNaN(a[2]) THEN 2
    ELSE IF RLess(a[1], a[2]) THEN 2
    ELSE 1

\* variant: np.argmax(angles) without np.abs
rotate_angle_noabs(corner_ur_, corner_ul_, corner_ll_) ==
    LET angles == << anglex_of(corner_ur_, corner_ul_),
                     angley_of(corner_ul_, corner_ll_) >>
    IN  angles[argmax(angles)]

rotate_angle(corner_ur_, corner_ul_, corner_ll_) ==
    LET angles == << anglex_of(corner_ur_, corner_ul_),
                     angley_of(corner_ul_, corner_ll_) >>
    IN  angles[argmax(<<RAbs(angles[1]), RAbs(angles[2])>>)]

rotation_matrix(a) ==
    << <<Cos(a), RNeg(Sin(a))>>, <<Sin(a), Cos(a)>> >>

rotate(p, corner_ur_, corner_ul_, corner_ll_) ==
    MatVec(rotation_matrix(rotate_angle(corner_ur_, corner_ul_, corner_ll_)), p)

\* -------------------------------------------------------------- translate
translate(p, corner_ll_) ==
    <<RAdd(p[1], Frac(corner_ll_[1], 1)), RAdd(p[2], Frac(corner_ll_[2], 1))>>

\* ---------------------------------------------------------- transform_old
\* variant: the latitude counted down from the upper edge
transform_old_ydown(p, corner_ur_, corner_ul_, corner_ll_, imagesize_) ==
    LET deg_per_pix_xdir == Frac(corner_ur_[1] - corner_ul_[1], imagesize_[1])
        deg_per_pix_ydir == Frac(corner_ul_[2] - corner_ll_[2], imagesize_[2])
    IN  << RAdd(RMul(Frac(p[1], 1), deg_per_pix_xdir), Frac(corner_ul_[1], 1)),
           RAdd(RMul(Frac(-1, 1), RMul(Frac(p[2], 1), deg_per_pix_ydir)),
                Frac(corner_ul_[2], 1)) >>

transform_old(p, corner_ur_, corner_ul_, corner_ll_, imagesize_) ==
    LET x_deg_len == corner_ur_[1] - corner_ul_[1]
        y_deg_len == corner_ul_[2] - corner_ll_[2]
        deg_per_pix_xdir == Frac(x_deg_len, imagesize_[1])
        deg_per_pix_ydir == Frac(y_deg_len, imagesize_[2])
        rec_ul_lon == RAdd(RMul(Frac(p[1], 1), deg_per_pix_xdir),
                           Frac(corner_ul_[1], 1))
        lat == RAdd(RMul(Frac(-1, 1),
                         RMul(Frac(imagesize_[2] - p[2], 1), deg_per_pix_ydir)),
                    Frac(corner_ul_[2], 1))
    IN  <<rec_ul_lon, lat>>

\* variant: the upper bounds exclusive
bounds_warnings_exclusive(p, imagesize_) ==
    (IF ~(0 <= p[1] /\ p[1] < imagesize_[1])
     THEN << [coord |-> "x", value |-> p[1], dim |-> "image-width",
              size |-> imagesize_[1]] >>
     ELSE << >>)
    \o
    (IF ~(0 <= p[2] /\ p[2] < imagesize_[2])
     THEN << [coord |-> "y", value |-> p[2], dim |-> "image-height",
              size |-> imagesize_[2]] >>
     ELSE << >>)

\* the warnings the two bounds checks of transform print, in order
bounds_warnings(p, imagesize_) ==
    (IF ~(0 <= p[1] /\ p[1] <= imagesize_[1])
     THEN << [coord |-> "x", value |-> p[1], dim |-> "image-width",
              size |-> imagesize_[1]] >>
     ELSE << >>)
    \o
    (IF ~(0 <= p[2] /\ p[2] <= imagesize_[2])
     THEN << [coord |-> "y", value |-> p[2], dim |-> "image-height",
              size |-> imagesize_[2]] >>
     ELSE << >>)

\* ------------------------------------------------------------------ inputs
\* pixel coordinates reach one past the largest image on either side
PixelCoords == -1..(MaxSize + 1)

PixelPoints == PixelCoords \X PixelCoords

ImageSizes == (1..MaxSize) \X (1..MaxSize)

\* edge vectors with an integer length
EdgeVecs ==
    { <<a, 0>> : a \in -MaxLen..MaxLen } \cup
    { <<0, a>> : a \in -MaxLen..MaxLen } \cup
    { <<3, 4>>, <<3, -4>>, <<-3, 4>>, <<-3, -4>>,
      <<4, 3>>, <<4, -3>>, <<-4, 3>>, <<-4, -3>> }

\* the upper-left corner is kept off the origin and off both axes
UpperLefts == { <<1, 2>> }

\* ------------------------------------------------------------------- state
VARIABLES
    pointpx,      \* the pixel point passed in
    corner_ur,    \* upper-right corner
    corner_ul,    \* upper-left corner
    corner_ll,    \* lower-left corner
    imagesize,    \* (width, height)
    pc,           \* position inside the call
    point,        \* the local variable point / the returned value
    angle,        \* the angle rotate chose
    M_rotation,   \* the matrix rotate built
    warnings,     \* the lines printed so far
    error,        \* the exception raised, if any
    stages,       \* the stages executed so far, in order
    old           \* the value transform_old returned for the same arguments

vars == <<pointpx, corner_ur, corner_ul, corner_ll, imagesize, pc, point,
          angle, M_rotation, warnings, error, stages, old>>

inputs == <<pointpx, corner_ur, corner_ul, corner_ll, imagesize>>

NoError == [kind |-> "none", raised_by |-> "none", scale |-> <<>>]

\* the corner arguments: ul fixed, the two edges drawn from EdgeVecs
InitCorners ==
    /\ corner_ul \in UpperLefts
    /\ \E vx \in EdgeVecs : corner_ur = VSub(corner_ul, vx)
    /\ \E vy \in EdgeVecs : corner_ll = <<corner_ul[1] + vy[1], corner_ul[2] + vy[2]>>

\* a call transform(pointpx, corner_ur, corner_ul, corner_ll, imagesize)
Init ==
    /\ pointpx \in PixelPoints
    /\ imagesize \in ImageSizes
    /\ InitCorners
    /\ pc = "bounds"
    /\ point = NoPoint
    /\ angle = NaN
    /\ M_rotation = <<>>
    /\ warnings = <<>>
    /\ error = NoError
    /\ stages = <<>>
    /\ old = NoPoint

\* transform, lines 118-121: the two bounds checks only print
BoundsCheck ==
    /\ pc = "bounds"
    /\ warnings' = warnings \o bounds_warnings(pointpx, imagesize)
    /\ stages' = Append(stages, "bounds")
    /\ pc' = "scale"
    /\ UNCHANGED <<inputs, point, angle, M_rotation, error, old>>

\* variant: the assert is skipped and the call goes on
Scale_unchecked ==
    /\ pc = "scale"
    /\ stages' = Append(stages, "scale")
    /\ point' = scale(Vec(pointpx), corner_ur, corner_ul, corner_ll, imagesize)
    /\ pc' = "rotate"
    /\ UNCHANGED <<inputs, angle, M_rotation, warnings, error, old>>

\* transform, lines 123-127: the call of scale, whose assert may raise
Scale ==
    /\ pc = "scale"
    /\ stages' = Append(stages, "scale")
    /\ LET s == scale_factors(corner_ur, corner_ul, corner_ll, imagesize)
       IN  IF scale_assert(s)
           THEN /\ point' = scale(Vec(pointpx), corner_ur, corner_ul, corner_ll, imagesize)
                /\ pc' = "rotate"
                /\ error' = error
           ELSE /\ error' = [kind |-> "AssertionError", raised_by |-> "scale",
                             scale |-> s]
                /\ pc' = "failed"
                /\ point' = point
    /\ UNCHANGED <<inputs, angle, M_rotation, warnings, old>>

\* transform, line 128
Rotate ==
    /\ pc = "rotate"
    /\ stages' = Append(stages, "rotate")
    /\ angle' = rotate_angle(corner_ur, corner_ul, corner_ll)
    /\ M_rotation' = rotation_matrix(angle')
    /\ point' = rotate(point, corner_ur, corner_ul, corner_ll)
    /\ pc' = "translate"
    /\ UNCHANGED <<inputs, warnings, error, old>>

\* variant: the offset is the upper-left corner
Translate_ul ==
    /\ pc = "translate"
    /\ stages' = Append(stages, "translate")
    /\ point' = translate(point, corner_ul)
    /\ pc' = "done"
    /\ UNCHANGED <<inputs, angle, M_rotation, warnings, error, old>>

\* transform, lines 129-130
Translate ==
    /\ pc = "translate"
    /\ stages' = Append(stages, "translate")
    /\ point' = translate(point, corner_ll)
    /\ pc' = "done"
    /\ UNCHANGED <<inputs, angle, M_rotation, warnings, error, old>>

\* once transform has returned, the caller asks the legacy transform_old
\* about the same arguments
TransformOld ==
    /\ pc = "done"
    /\ old = NoPoint
    /\ old' = transform_old(pointpx, corner_ur, corner_ul, corner_ll, imagesize)
    /\ UNCHANGED <<inputs, pc, point, angle, M_rotation, warnings, error, stages>>

Next == BoundsCheck \/ Scale \/ Rotate \/ Translate \/ TransformOld

Spec == Init /\ [][Next]_vars

\* ------------------------------------------------------ rotate called alone
\* a direct call rotate(point, corner_ur, corner_ul, corner_ll), as visualize
\* makes it: no scale check runs before it, and imagesize is not an argument
InitDirect ==
    /\ pointpx \in PixelPoints
    /\ imagesize = <<1, 1>>
    /\ InitCorners
    /\ pc = "call_rotate"
    /\ point = Vec(pointpx)
    /\ angle = NaN
    /\ M_rotation = <<>>
    /\ warnings = <<>>
    /\ error = NoError
    /\ stages = <<>>
    /\ old = NoPoint

RotateCall ==
    /\ pc = "call_rotate"
    /\ stages' = Append(stages, "rotate")
    /\ angle' = rotate_angle(corner_ur, corner_ul, corner_ll)
    /\ M_rotation' = rotation_matrix(angle')
    /\ point' = rotate(point, corner_ur, corner_ul, corner_ll)
    /\ pc' = "rotate_returned"
    /\ UNCHANGED <<inputs, warnings, error, old>>

NextDirect == RotateCall

SpecDirect == InitDirect /\ [][NextDirect]_vars

\* ------------------------------------------------------------- vocabulary
\* the two per-axis scale factors of the current arguments
Factors == scale_factors(corner_ur, corner_ul, corner_ll, imagesize)

ScaleOk == scale_assert(Factors)

\* ul directly left of ur, ll directly below ul
AxisAligned ==
    /\ corner_ul[2] = corner_ur[2] /\ corner_ul[1] < corner_ur[1]
    /\ corner_ll[1] = corner_ul[1] /\ corner_ll[2] < corner_ul[2]

DistinctCorners == corner_ul # corner_ur /\ corner_ll # corner_ul

OutX == pointpx[1] < 0 \/ pointpx[1] > imagesize[1]

OutY == pointpx[2] < 0 \/ pointpx[2] > imagesize[2]

\* what the three stages yield for pixel point p and the current corners
Pipeline(p) ==
    translate(rotate(scale(Vec(p), corner_ur, corner_ul, corner_ll, imagesize),
                     corner_ur, corner_ul, corner_ll),
              corner_ll)

Returned == pc = "done"

\* a direct call of rotate has returned
Rotated == pc = "rotate_returned"

\* what the three stages yield for pixel point p, with the matrix rotate
\* built for the current corners
PipelineWith(M, p) ==
    translate(MatVec(M, scale(Vec(p), corner_ur, corner_ul, corner_ll, imagesize)),
              corner_ll)

Mid(u, v) == <<RDiv(RAdd(u[1], v[1]), Frac(2, 1)), RDiv(RAdd(u[2], v[2]), Frac(2, 1))>>

\* ------------------------------------------------------------------ claims

\* C1 as stated: transform of pixel (0, height) returns ll and transform of
\* pixel (width, 0) returns ur.
C1_CornerFixedPoints_Original ==
    Returned =>
        /\ (pointpx = <<0, imagesize[2]>> => point = Vec(corner_ll))
        /\ (pointpx = <<imagesize[1], 0>> => point = Vec(corner_ur))

\* C1 as amended: transform of pixel (0, 0) returns ll for every corner set
\* that passes the scale check; for an axis-aligned corner set transform of
\* pixel (0, height) returns ul and transform of pixel (width, height)
\* returns ur.
C1_CornerFixedPoints ==
    Returned =>
        /\ (pointpx = <<0, 0>> => point = Vec(corner_ll))
        /\ (AxisAligned /\ pointpx = <<0, imagesize[2]>> => point = Vec(corner_ul))
        /\ (AxisAligned /\ pointpx = imagesize => point = Vec(corner_ur))

C1_Witness ==
    /\ Returned /\ pointpx = <<0, 0>>
    /\ angle # Zero /\ corner_ll # <<0, 0>>
    /\ point = Vec(corner_ll)

\* C2: with scale_x = 1 and scale_y = 3 the call of transform fails with
\* the scale error and never has a point.
C2_ScaleViolationDetected ==
    (Factors = <<One, Frac(3, 1)>> /\ pc \notin {"bounds", "scale"})
        => (pc = "failed" /\ error.kind = "AssertionError" /\ point = NoPoint)

\* C3 as stated: with ul = ur the call ends in a failure that angle
\* inference raised, not the scaler.
C3_DegenerateCorner_Original ==
    (corner_ul = corner_ur /\ pc \notin {"bounds", "scale"})
        => (pc = "failed" /\ point = NoPoint /\ error.raised_by = "rotate")

\* C3 as amended: with ul = ur the call of transform returns no point; the
\* failure is the one the assert of scale raises, and rotate is never run.
C3_DegenerateCorner ==
    (corner_ul = corner_ur /\ pc \notin {"bounds", "scale"})
        => /\ pc = "failed" /\ point = NoPoint
           /\ error.kind = "AssertionError" /\ error.raised_by = "scale"
           /\ stages = <<"bounds", "scale">>

C3_Witness ==
    /\ corner_ul = corner_ur /\ corner_ll # corner_ul
    /\ pc = "failed" /\ error.scale[1] = Zero /\ error.scale[2] # Zero

\* C4: a pixel coordinate outside the inclusive image bounds makes transform
\* print a warning with that value and that image dimension, raises nothing
\* and leaves the returned point what the three stages yield; a coordinate
\* inside the bounds prints nothing.
C4_OutOfBoundsWarning ==
    (pc # "bounds") =>
        /\ OutX <=> \E i \in DOMAIN warnings :
                        /\ warnings[i].coord = "x"
                        /\ warnings[i].value = pointpx[1]
                        /\ warnings[i].size = imagesize[1]
        /\ OutY <=> \E i \in DOMAIN warnings :
                        /\ warnings[i].coord = "y"
                        /\ warnings[i].value = pointpx[2]
                        /\ warnings[i].size = imagesize[2]
        /\ (~OutX /\ ~OutY) => warnings = <<>>
        /\ error # NoError => ~ScaleOk
        /\ (pc = "failed") => ~ScaleOk
        /\ (pc = "done") => point = Pipeline(pointpx)

C4_Witness ==
    /\ Returned /\ OutX /\ ~OutY /\ Len(warnings) = 1
    /\ point = Pipeline(pointpx) /\ point # Vec(corner_ll)

\* C5: for an axis-aligned corner set that passes the scale check,
\* transform and transform_old return the same point.
C5_AgreesWithTransformOld ==
    (Returned /\ AxisAligned /\ old # NoPoint) => point = old

C5_Witness ==
    /\ Returned /\ AxisAligned /\ old # NoPoint /\ point = old
    /\ pointpx[1] > 0 /\ pointpx[2] > 0 /\ pointpx[2] # imagesize[2]
    /\ Factors[1] # Factors[2]

\* each unordered pair of pixel points once
Before(P1, P2) == P1[1] < P2[1] \/ (P1[1] = P2[1] /\ P1[2] <= P2[2])

\* C6: the point transform returns for the midpoint of two pixel points is
\* the midpoint of what the pipeline yields for the two points.
C6_Affine ==
    Returned =>
        \A P1 \in PixelPoints :
            LET P2 == <<2 * pointpx[1] - P1[1], 2 * pointpx[2] - P1[2]>>
            IN  (P2 \in PixelPoints /\ Before(P1, P2)) =>
                    point = Mid(PipelineWith(M_rotation, P1), PipelineWith(M_rotation, P2))

C6_Witness ==
    /\ Returned /\ angle # Zero /\ Factors[1] # Factors[2]
    /\ \E P1 \in PixelPoints :
          LET P2 == <<2 * pointpx[1] - P1[1], 2 * pointpx[2] - P1[2]>>
          IN  /\ P2 \in PixelPoints
              /\ P1[1] # P2[1] /\ P1[2] # P2[2]
              /\ P1[1] < 0 /\ P2[2] > imagesize[2]
              /\ point = Mid(PipelineWith(M_rotation, P1), PipelineWith(M_rotation, P2))

\* C7: with distinct adjacent corners rotate applies the rotation by the one
\* of anglex and angley that has the larger absolute value, never the one
\* with the smaller.
C7_DominantAxis ==
    (Rotated /\ DistinctCorners) =>
        LET ax == anglex_of(corner_ur, corner_ul)
            ay == angley_of(corner_ul, corner_ll)
            larger == IF RLess(RAbs(ax), RAbs(ay)) THEN ay ELSE ax
        IN  /\ angle = larger
            /\ M_rotation = rotation_matrix(larger)
            /\ point = MatVec(rotation_matrix(larger), Vec(pointpx))
            /\ RLeq(RAbs(ax), RAbs(angle)) /\ RLeq(RAbs(ay), RAbs(angle))

C7_Witness ==
    /\ Rotated /\ DistinctCorners
    /\ RLess(RAbs(anglex_of(corner_ur, corner_ul)), RAbs(angley_of(corner_ul, corner_ll)))
    /\ anglex_of(corner_ur, corner_ul) # Zero
    /\ angle = angley_of(corner_ul, corner_ll)
    /\ pointpx[1] # 0 /\ pointpx[2] # 0
    /\ ~scale_assert(scale_factors(corner_ur, corner_ul, corner_ll, imagesize))

\* C8: once scale has returned a point, neither scale factor is more than
\* twice the other.
C8_ScaleFactorsWithinTwo ==
    (pc \in {"rotate", "translate", "done"}) =>
        /\ ~RLess(RMul(Frac(2, 1), Factors[2]), Factors[1])
        /\ ~RLess(RMul(Frac(2, 1), Factors[1]), Factors[2])

\* C9: a call of transform runs bounds check, scale, rotate, translate in
\* that order, each stage on the output of the one before; when the assert
\* of scale fails the call stops there with no point, after any warning of
\* the call has been printed.
C9_StageOrder ==
        LET scaled == scale(Vec(pointpx), corner_ur, corner_ul, corner_ll, imagesize)
            rotated == rotate(scaled, corner_ur, corner_ul, corner_ll)
        IN  /\ pc = "bounds" => stages = <<>> /\ point = NoPoint
            /\ pc = "scale" => stages = <<"bounds">> /\ point = NoPoint
            /\ pc = "rotate" => stages = <<"bounds", "scale">> /\ point = scaled
            /\ pc = "translate" =>
                   stages = <<"bounds", "scale", "rotate">> /\ point = rotated
            /\ pc = "done" =>
                   /\ stages = <<"bounds", "scale", "rotate", "translate">>
                   /\ point = translate(rotated, corner_ll)
            /\ pc = "failed" =>
                   /\ stages = <<"bounds", "scale">>
                   /\ point = NoPoint /\ M_rotation = <<>>
                   /\ ~ScaleOk
                   /\ Len(warnings) = (IF OutX THEN 1 ELSE 0) + (IF OutY THEN 1 ELSE 0)
            /\ pc \in {"rotate", "translate", "done"} => ScaleOk

C9_Witness ==
    /\ pc = "failed" /\ OutX /\ OutY /\ Len(warnings) = 2
    /\ DistinctCorners

\* C10: with distinct adjacent corners the angle rotate applies lies in
\* [-pi, 0], and the corner set whose ul - ur edge is mirrored about the
\* horizontal axis and whose ll - ul edge is mirrored about the vertical
\* axis yields the same rotation matrix.
C10_SignNotRecovered ==
    (Rotated /\ DistinctCorners) =>
        LET mirror_ur == <<corner_ur[1], 2 * corner_ul[2] - corner_ur[2]>>
            mirror_ll == <<2 * corner_ul[1] - corner_ll[1], corner_ll[2]>>
        IN  /\ RLeq(RNeg(Pi), angle) /\ RLeq(angle, Zero)
            /\ M_rotation = rotation_matrix(rotate_angle(mirror_ur, corner_ul, mirror_ll))

C10_Witness ==
    /\ Rotated /\ DistinctCorners
    /\ corner_ur[2] # corner_ul[2] /\ corner_ll[1] # corner_ul[1]
    /\ angle # Zero /\ angle # RNeg(Pi)
    /\ anglex_of(corner_ur, corner_ul) # angley_of(corner_ul, corner_ll)

====
